---- MODULE Spec2Model ----
(***************************************************************************)
(* Project stage progression engine of the emission server (src/server.js) *)
(* as a state machine over the relational store.  Every request handler is *)
(* a sequence of store steps issued on ONE shared MySQL connection         *)
(* (server.js:20); steps of different requests interleave between          *)
(* callbacks, and transactions are opened, committed and rolled back on    *)
(* that shared connection.                                                 *)
(***************************************************************************)
EXTENDS Integers, FiniteSets, Sequences, TLC

(***************************************************************************)
(* Bounds of the model                                                     *)
(***************************************************************************)
MaxInst == 3
MaxCalls == 2
MaxOps == 1
MaxNotif == 1
MaxReq == 1
MaxCarbon == 4
MaxAccruals == 2
MaxArrive == 2

(***************************************************************************)
(* Value domains                                                           *)
(***************************************************************************)
UserSeq == <<"O", "A", "B">>
Users == {UserSeq[k] : k \in 1..Len(UserSeq)}
NoUser == "nobody"

OWNER == "project_owner"
LEADER == "project_leader"
MEMBER == "member"
Roles == {OWNER, LEADER, MEMBER}

NULL == "NULL"
NotStarted == "Not Started"
InProgress == "In Progress"
StageComplete == "Stage Complete"
ProgressStatuses == {NULL, NotStarted, InProgress, StageComplete}

Complete == "Complete"
Archived == "Archived"

\* projectStages, server.js:1463-1467
projectStages ==
  << "Design: Creating the software architecture",
     "Development: Writing the actual code",
     "Testing: Ensuring the software works as expected" >>
StageLabels == {projectStages[i] : i \in 1..Len(projectStages)}
NoStage == "none"

Names == {"X", "Y"}
Descs == {"d"}

\* project_id IS NULL
NoGroup == 0

VARIABLES
  db,        \* the store as seen through the shared connection (uncommitted writes included)
  durable,   \* the committed store
  inTxn,     \* a transaction is open on the shared connection
  nextId,    \* auto-increment counters of the tables (never rolled back)
  calls,     \* the multi-step requests: position and locals of each
  ops,       \* number of single-statement requests served
  evalOut,   \* last result reported by checkAndUpdateProjectCompletion run on its own
  calc,      \* inputs and result of the emission computation run on its own
  gate,      \* the last request authenticateAdmin has looked at, and its verdict
  connState, \* connection.state of the shared connection
  hist       \* history kept for the properties: what responses have reported

vars == <<db, durable, inTxn, nextId, calls, ops, evalOut, hist, calc, gate, connState>>

(***************************************************************************)
(* Tables                                                                  *)
(***************************************************************************)
EmptyDb ==
  [ inst  |-> [x \in {} |-> 0],   \* user_history: id -> row
    mem   |-> {},     \* project_members rows
    prog  |-> {},     \* project_stage_progress rows, unique on (pid, uid, stage)
    notif |-> {},     \* notifications rows
    preq  |-> {} ]    \* project_requests rows

InstRow(owner, name, desc, stage, gid, status, carbon, sess) ==
  [owner |-> owner, name |-> name, desc |-> desc, stage |-> stage, gid |-> gid,
   status |-> status, carbon |-> carbon, sess |-> sess]

\* a project_members row; k tells apart the rows of one (project, user, role):
\* it stands for the auto-increment id, which only orders such rows
MemRow(k, pid, uid, role, ps) ==
  [k |-> k, pid |-> pid, uid |-> uid, role |-> role, ps |-> ps]

\* number of rows of (project, user, role) in the table
RowCount(mem, pid, uid, role) ==
  Cardinality({r \in mem : r.pid = pid /\ r.uid = uid /\ r.role = role})

\* INSERT INTO project_members of one row
InsertMember(mem, pid, uid, role, ps) ==
  mem \cup {MemRow(RowCount(mem, pid, uid, role) + 1, pid, uid, role, ps)}

InstIds(d) == DOMAIN d.inst

MembersOf(d, p) == {r \in d.mem : r.pid = p}

(***************************************************************************)
(* checkAndUpdateProjectCompletion, server.js:125-173                      *)
(***************************************************************************)
\* getMembersQuery: rows of the instance whose role is not project_owner
getMembersQuery(d, p) == {r \in d.mem : r.pid = p /\ r.role # OWNER}

AllCompletedNoEmptyCheck(members) ==
  \A m \in members : m.ps = StageComplete

\* members.length === 0 -> false; else members.every(progress_status === 'Stage Complete')
AllCompleted(members) ==
  IF Cardinality(members) = 0
  THEN FALSE
  ELSE \A m \in members : m.ps = StageComplete

\* updateProjectQuery: UPDATE user_history SET status = 'Complete' WHERE id = ?
updateProjectQuery(d, p) ==
  IF p \in InstIds(d)
  THEN [d EXCEPT !.inst[p].status = Complete]
  ELSE d

\* the whole function without store errors: the store afterwards and the result
checkAndUpdateProjectCompletion(d, p) ==
  LET all == AllCompleted(getMembersQuery(d, p))
  IN [db |-> IF all THEN updateProjectQuery(d, p) ELSE d, all |-> all]


(***************************************************************************)
(* The shared connection, server.js:20-55, and its transaction primitives. *)
(* START TRANSACTION on a connection that already has a transaction open   *)
(* commits that transaction (MySQL implicit commit); COMMIT and ROLLBACK   *)
(* end whatever transaction is open, whoever opened it.                    *)
(***************************************************************************)
\* connection.query of a writing statement: autocommit unless a transaction is open
Exec(newDb) ==
  /\ db' = newDb
  /\ durable' = IF inTxn THEN durable ELSE newDb
  /\ UNCHANGED inTxn

\* connection.query of a SELECT
Read == UNCHANGED <<db, durable, inTxn>>

\* connection.beginTransaction
beginTransaction ==
  /\ durable' = db
  /\ inTxn' = TRUE
  /\ UNCHANGED db

\* connection.commit
commit ==
  /\ durable' = db
  /\ inTxn' = FALSE
  /\ UNCHANGED db

\* connection.rollback
rollback ==
  /\ db' = durable
  /\ inTxn' = FALSE
  /\ UNCHANGED durable

(***************************************************************************)
(* Requests made of several store steps                                    *)
(***************************************************************************)
NoRow == InstRow("O", "X", "d", projectStages[1], NoGroup, InProgress, 0, 0)

\* uid: the caller; pid: the project the request names; ref: the notification or
\* project request it names; next: nextStage; resp: the invitation response; cur:
\* currentProject; all: allCompleted; tgt: existingProjectId / newProjectId /
\* the project id read or created; rows: membersToTransfer; role: the role an
\* added member gets; lost: a statement of the request has met a lost connection
\* and has been run again on a new one; email: recipientEmail; rcpt: recipientId;
\* wait: queryDatabase has set its timer and executeQuery has not run again;
\* res: the response
IdleCall ==
  [op |-> "idle", pc |-> "idle", uid |-> "O", pid |-> 0, ref |-> 0, next |-> NoStage,
   resp |-> "none", cur |-> NoRow, all |-> FALSE, tgt |-> 0, rows |-> {},
   branch |-> "none", role |-> MEMBER, lost |-> FALSE,
   email |-> "none", rcpt |-> NoUser, wait |-> FALSE, res |-> "none"]

Slots == 1..MaxCalls

\* a request ends: its response is kept, its other locals are dropped
Finish(c, res) ==
  [c EXCEPT !.pc = "done", !.res = res, !.cur = NoRow, !.rows = {}]

SetCall(i, c) == calls' = [calls EXCEPT ![i] = c]

\* error path of a step inside the transaction: connection.rollback, then the error response
FailRollback(i) ==
  /\ rollback
  /\ SetCall(i, Finish(calls[i], "500"))
  /\ UNCHANGED <<nextId, ops, evalOut, calc, hist, gate, connState>>

At(i, op, pc) == calls[i].op = op /\ calls[i].pc = pc


\* error path of a step outside any transaction handling: the error response alone
FailPlain(i) ==
  /\ SetCall(i, Finish(calls[i], "500"))
  /\ UNCHANGED <<db, durable, inTxn, nextId, ops, evalOut, calc, hist, gate, connState>>

\* slots are taken in order
Free(i) ==
  /\ calls[i].op = "idle"
  /\ \A j \in Slots : j < i => calls[j].op # "idle"

\* the steps of the transactional requests whose statement goes through
\* queryDatabase: all but the arrival, beginTransaction and commit
ViaQueryDatabase(c) ==
  /\ c.op \in {"completeStage", "respond", "approve"}
  /\ c.pc \notin {"idle", "begin", "commit", "thrown", "done"}

\* queryDatabase, server.js:71-96: the statement of the request's next step
\* fails with PROTOCOL_CONNECTION_LOST, ECONNRESET or ETIMEDOUT. The server has
\* dropped the connection and with it the open transaction; createConnection
\* assigns a new connection, in autocommit mode, and executeQuery runs the same
\* statement again on it: the request stays at its step.
ConnectionLost(i) ==
  /\ ViaQueryDatabase(calls[i])
  /\ ~calls[i].lost
  /\ db' = durable
  /\ inTxn' = FALSE
  /\ calls' = [calls EXCEPT ![i].lost = TRUE]
  /\ UNCHANGED <<durable, nextId, ops, evalOut, calc, hist, gate, connState>>

\* a statement handed to queryDatabase has not called back yet
Pending(c) == c.op # "idle" /\ c.pc \notin {"idle", "done", "thrown"}

\* executeQuery, server.js:78-93, with the store unreachable: the connection
\* is missing or disconnected, or connection.query fails with
\* PROTOCOL_CONNECTION_LOST, ECONNRESET or ETIMEDOUT; createConnection is
\* called and setTimeout(() => executeQuery(), 1000) is set; the callback of
\* the statement is not called and nothing counts the attempts
QD_Unavailable(i) ==
  /\ Pending(calls[i])
  /\ ~calls[i].wait
  /\ connState = "disconnected"
  /\ calls' = [calls EXCEPT ![i].wait = TRUE]
  /\ UNCHANGED <<db, durable, inTxn, nextId, ops, evalOut, calc, hist, gate, connState>>

\* the timer of queryDatabase fires and executeQuery runs again
QD_Timer(i) ==
  /\ Pending(calls[i])
  /\ calls[i].wait
  /\ calls' = [calls EXCEPT ![i].wait = FALSE]
  /\ UNCHANGED <<db, durable, inTxn, nextId, ops, evalOut, calc, hist, gate, connState>>

\* executeQuery hands the statement to a connection that works
Runs(i) == connState = "authenticated" /\ ~calls[i].wait

\* the store becomes unreachable: the session of the connection, with its open
\* transaction, is gone
Disconnect ==
  /\ connState = "authenticated"
  /\ connState' = "disconnected"
  /\ db' = durable
  /\ inTxn' = FALSE
  /\ UNCHANGED <<durable, nextId, calls, ops, evalOut, calc, hist, gate>>

\* createConnection, server.js:22-55: connection.connect succeeds
Reconnect ==
  /\ connState = "disconnected"
  /\ connState' = "authenticated"
  /\ UNCHANGED <<db, durable, inTxn, nextId, calls, ops, evalOut, calc, hist, gate>>

\* k of the copy of row r (one of src) inserted into project tgt
CopyK(mem, src, tgt, r) ==
  RowCount(mem, tgt, r.uid, r.role)
  + Cardinality({q \in src : q.uid = r.uid /\ q.role = r.role /\ q.k <= r.k})

(***************************************************************************)
(* POST /complete_project/:id, server.js:1457-1869                         *)
(***************************************************************************)
\* currentProject.project_id || projectId
GroupOf(cur, p) == IF cur.gid # NoGroup THEN cur.gid ELSE p

\* completeCurrentStageQuery: INSERT ... VALUES (?, ?, ?, 'Complete', ...)
\* ON DUPLICATE KEY UPDATE status = 'Complete'
completeCurrentStageQuery(d, p, u, stage) ==
  [d EXCEPT !.prog = {r \in @ : ~(r.pid = p /\ r.uid = u /\ r.stage = stage)}
                     \cup {[pid |-> p, uid |-> u, stage |-> stage, status |-> Complete]}]

\* updateUserProgressQuery: ... WHERE project_id = ? AND user_id = ? AND role != 'project_owner'
updateUserProgressQuery(d, p, u) ==
  [d EXCEPT !.mem = {IF r.pid = p /\ r.uid = u /\ r.role # OWNER
                     THEN [r EXCEPT !.ps = StageComplete] ELSE r : r \in @}]

\* checkExistingQuery: the ids it can return (LIMIT 1 without ORDER BY picks one of them)
checkExistingQuery(d, name, desc, stage, g) ==
  {x \in InstIds(d) :
     /\ d.inst[x].name = name
     /\ d.inst[x].desc = desc
     /\ d.inst[x].stage = stage
     /\ (d.inst[x].gid = g \/ d.inst[x].gid = NoGroup)}

\* checkMembershipQuery
checkMembershipQuery(d, p, u) == {r \in d.mem : r.pid = p /\ r.uid = u}

\* addToNextStageQuery: INSERT ... SELECT ?, user_id, role, ?, 'In Progress' FROM
\* project_members WHERE project_id = ? AND user_id = ?
addToNextStageQuery(d, tgt, p, u) ==
  LET src == {r \in d.mem : r.pid = p /\ r.uid = u}
  IN [d EXCEPT !.mem = @ \cup
        {MemRow(CopyK(d.mem, src, tgt, r), tgt, r.uid, r.role, InProgress) : r \in src}]

\* updateUserStatusQuery: UPDATE ... SET progress_status = 'In Progress'
\* WHERE project_id = ? AND user_id = ?
updateUserStatusQuery(d, tgt, u) ==
  [d EXCEPT !.mem = {IF r.pid = tgt /\ r.uid = u
                     THEN [r EXCEPT !.ps = InProgress] ELSE r : r \in @}]

\* createNextStageQuery
createNextStageQuery(d, n, cur, next, g) ==
  [d EXCEPT !.inst = [x \in DOMAIN @ \cup {n} |->
      IF x = n
      THEN InstRow(cur.owner, cur.name, cur.desc, next, g, InProgress, 0, 0)
      ELSE @[x]]]

\* transferMembersQuery: SELECT user_id, role FROM project_members WHERE project_id = ?
transferMembersQuery(d, p) ==
  {[k |-> r.k, uid |-> r.uid, role |-> r.role] : r \in MembersOf(d, p)}

\* memberValues with every transferred row given the status of the caller's
TransferStatusOfCaller(role, uid, u) ==
  IF role = OWNER THEN NULL ELSE InProgress

\* memberValues: progress_status of a transferred row
TransferStatus(role, uid, u) ==
  IF role = OWNER THEN NULL
  ELSE IF uid = u THEN InProgress ELSE NotStarted

\* addMembersQuery: the batch insert of memberValues
addMembersQuery(d, tgt, rows, u) ==
  [d EXCEPT !.mem = @ \cup
     {MemRow(CopyK(d.mem, rows, tgt, r), tgt, r.uid, r.role,
             TransferStatus(r.role, r.uid, u)) : r \in rows}]

\* the response sent after the commit, were allCompleted not looked at in the
\* branch without next stage
ResponseIgnoringAllCompleted(branch, all) ==
  CASE branch = "terminal" -> "Project-Completed"
    [] branch = "empty"    -> "Stage completed successfully"
    [] OTHER               -> IF all THEN "Stage-Completed" ELSE "Stage-User-Completed"

\* the response sent after the commit
Response(branch, all) ==
  CASE branch = "terminal" -> IF all THEN "Project-Completed" ELSE "User-Stage-Completed"
    [] branch = "empty"    -> "Stage completed successfully"
    [] OTHER               -> IF all THEN "Stage-Completed" ELSE "Stage-User-Completed"

\* after checkAndUpdateProjectCompletion has called back
AfterEval(c, all) ==
  IF c.next = NoStage
  THEN [c EXCEPT !.all = all, !.branch = "terminal", !.pc = "commit"]
  ELSE [c EXCEPT !.all = all, !.pc = "check"]

\* the request arrives and getCurrentProjectQuery runs
CS_Get(i, u, p, ns) ==
  /\ Free(i)
  /\ LET c == [IdleCall EXCEPT !.op = "completeStage", !.uid = u, !.pid = p, !.next = ns]
     IN IF p \in InstIds(db)
        THEN SetCall(i, [c EXCEPT !.pc = "begin", !.cur = db.inst[p]])
        ELSE SetCall(i, Finish(c, "404"))
  /\ UNCHANGED <<db, durable, inTxn, nextId, ops, evalOut, calc, hist, gate, connState>>

CS_Begin(i) ==
  /\ At(i, "completeStage", "begin")
  /\ \/ /\ beginTransaction
        /\ SetCall(i, [calls[i] EXCEPT !.pc = "upsert"])
        /\ UNCHANGED <<nextId, ops, evalOut, calc, hist, gate, connState>>
     \/ FailPlain(i)

CS_Upsert(i) ==
  /\ At(i, "completeStage", "upsert")
  /\ \/ /\ Exec(completeCurrentStageQuery(db, calls[i].pid, calls[i].uid, calls[i].cur.stage))
        /\ SetCall(i, [calls[i] EXCEPT !.pc = "updProg"])
        /\ UNCHANGED <<nextId, ops, evalOut, calc, hist, gate, connState>>
     \/ FailRollback(i)

CS_UpdProg(i) ==
  /\ At(i, "completeStage", "updProg")
  /\ \/ /\ Exec(updateUserProgressQuery(db, calls[i].pid, calls[i].uid))
        /\ SetCall(i, [calls[i] EXCEPT !.pc = "evalSel"])
        /\ UNCHANGED <<nextId, ops, evalOut, calc, hist, gate, connState>>
     \/ FailRollback(i)

\* checkAndUpdateProjectCompletion: getMembersQuery and the decision
CS_EvalSel(i) ==
  /\ At(i, "completeStage", "evalSel")
  /\ \/ /\ Read
        /\ IF AllCompleted(getMembersQuery(db, calls[i].pid))
           THEN SetCall(i, [calls[i] EXCEPT !.pc = "evalUpd"])
           ELSE SetCall(i, AfterEval(calls[i], FALSE))
        /\ UNCHANGED <<nextId, ops, evalOut, calc, hist, gate, connState>>
     \/ FailRollback(i)

\* checkAndUpdateProjectCompletion: updateProjectQuery, then callback(null, true)
CS_EvalUpd(i) ==
  /\ At(i, "completeStage", "evalUpd")
  /\ \/ /\ Exec(updateProjectQuery(db, calls[i].pid))
        /\ SetCall(i, AfterEval(calls[i], TRUE))
        /\ UNCHANGED <<nextId, ops, evalOut, calc, hist, gate, connState>>
     \/ FailRollback(i)

CS_Check(i) ==
  /\ At(i, "completeStage", "check")
  /\ \/ /\ Read
        /\ LET c == calls[i]
               found == checkExistingQuery(db, c.cur.name, c.cur.desc, c.next,
                                           GroupOf(c.cur, c.pid))
           IN IF found # {}
              THEN \E x \in found :
                     SetCall(i, [c EXCEPT !.tgt = x, !.branch = "found", !.pc = "chkMem"])
              ELSE SetCall(i, [c EXCEPT !.branch = "create", !.pc = "create"])
        /\ UNCHANGED <<nextId, ops, evalOut, calc, hist, gate, connState>>
     \/ FailRollback(i)

CS_ChkMem(i) ==
  /\ At(i, "completeStage", "chkMem")
  /\ \/ /\ Read
        /\ IF checkMembershipQuery(db, calls[i].tgt, calls[i].uid) = {}
           THEN SetCall(i, [calls[i] EXCEPT !.pc = "addNext"])
           ELSE SetCall(i, [calls[i] EXCEPT !.pc = "updNext"])
        /\ UNCHANGED <<nextId, ops, evalOut, calc, hist, gate, connState>>
     \/ FailRollback(i)

CS_AddNext(i) ==
  /\ At(i, "completeStage", "addNext")
  /\ \/ LET c == calls[i]
        IN /\ Exec(addToNextStageQuery(db, c.tgt, c.pid, c.uid))
           /\ SetCall(i, [c EXCEPT !.pc = "commit"])
           /\ UNCHANGED <<nextId, ops, evalOut, calc, hist, gate, connState>>
     \/ FailRollback(i)

CS_UpdNext(i) ==
  /\ At(i, "completeStage", "updNext")
  /\ \/ /\ Exec(updateUserStatusQuery(db, calls[i].tgt, calls[i].uid))
        /\ SetCall(i, [calls[i] EXCEPT !.pc = "commit"])
        /\ UNCHANGED <<nextId, ops, evalOut, calc, hist, gate, connState>>
     \/ FailRollback(i)

CS_Create(i) ==
  /\ At(i, "completeStage", "create")
  /\ \/ LET c == calls[i]
        IN /\ nextId.inst <= MaxInst
           /\ Exec(createNextStageQuery(db, nextId.inst, c.cur, c.next, GroupOf(c.cur, c.pid)))
           /\ nextId' = [nextId EXCEPT !.inst = @ + 1]
           /\ SetCall(i, [c EXCEPT !.tgt = nextId.inst, !.pc = "transfer"])
           /\ UNCHANGED <<ops, evalOut, calc, hist, gate, connState>>
     \/ FailRollback(i)

CS_Transfer(i) ==
  /\ At(i, "completeStage", "transfer")
  /\ \/ /\ Read
        /\ LET rows == transferMembersQuery(db, calls[i].pid)
           IN IF rows = {}
              THEN SetCall(i, [calls[i] EXCEPT !.branch = "empty", !.pc = "commit"])
              ELSE SetCall(i, [calls[i] EXCEPT !.rows = rows, !.pc = "addMembers"])
        /\ UNCHANGED <<nextId, ops, evalOut, calc, hist, gate, connState>>
     \/ FailRollback(i)

CS_AddMembers(i) ==
  /\ At(i, "completeStage", "addMembers")
  /\ \/ LET c == calls[i]
        IN /\ Exec(addMembersQuery(db, c.tgt, c.rows, c.uid))
           /\ SetCall(i, [c EXCEPT !.rows = {}, !.pc = "count"])
           /\ UNCHANGED <<nextId, ops, evalOut, calc, hist, gate, connState>>
     \/ FailRollback(i)

\* getCompletedUsersQuery and totalMembersQuery
CS_Count(i) ==
  /\ At(i, "completeStage", "count")
  /\ \/ /\ Read
        /\ SetCall(i, [calls[i] EXCEPT !.pc = "commit"])
        /\ UNCHANGED <<nextId, ops, evalOut, calc, hist, gate, connState>>
     \/ FailRollback(i)

\* connection.commit and the response
CS_Commit(i) ==
  /\ At(i, "completeStage", "commit")
  /\ \/ /\ commit
        /\ SetCall(i, Finish(calls[i], Response(calls[i].branch, calls[i].all)))
        /\ hist' = [hist EXCEPT !.complete =
                      IF calls[i].all THEN @ \cup {calls[i].pid} ELSE @]
        /\ UNCHANGED <<nextId, ops, evalOut, calc, gate, connState>>
     \/ FailRollback(i)

CompleteStageStep(i) ==
  \/ CS_Begin(i) \/ CS_Upsert(i) \/ CS_UpdProg(i) \/ CS_EvalSel(i) \/ CS_EvalUpd(i)
  \/ CS_Check(i) \/ CS_ChkMem(i) \/ CS_AddNext(i) \/ CS_UpdNext(i) \/ CS_Create(i)
  \/ CS_Transfer(i) \/ CS_AddMembers(i) \/ CS_Count(i) \/ CS_Commit(i)


(***************************************************************************)
(* Requests modelled as one step: a single statement, or a handler whose   *)
(* statements are taken together without another request in between        *)
(***************************************************************************)
Budget == ops < MaxOps

Served == ops' = ops + 1

\* rows of a new project: owner with NULL status, leader and members In Progress
CreateRows(n, owner, leader, members) ==
  {MemRow(1, n, owner, OWNER, NULL)}
  \cup (IF leader = NoUser THEN {} ELSE {MemRow(1, n, leader, LEADER, InProgress)})
  \cup {MemRow(1, n, u, MEMBER, InProgress) : u \in members}

\* POST /admin/create_project, server.js:2555-2842: beginTransaction, the inserts, commit
AdminCreateProject(owner, leader, members, name, desc, stage) ==
  LET n == nextId.inst
      rows == CreateRows(n, owner, leader, members)
      new == [db EXCEPT
                !.inst = [x \in DOMAIN @ \cup {n} |->
                            IF x = n
                            THEN InstRow(owner, name, desc, stage, n, InProgress, 0, 0)
                            ELSE @[x]],
                !.mem = @ \cup rows]
  IN /\ n <= MaxInst
     /\ db' = new
     /\ durable' = new
     /\ inTxn' = FALSE
     /\ nextId' = [nextId EXCEPT !.inst = @ + 1]
     /\ UNCHANGED <<calls, ops, evalOut, calc, hist, gate, connState>>

\* POST /user_history, server.js:506-565: a project row without project_id and members
UserHistory(u, name, desc, stage) ==
  LET n == nextId.inst
  IN /\ Budget
     /\ n <= MaxInst
     /\ Exec([db EXCEPT !.inst = [x \in DOMAIN @ \cup {n} |->
                 IF x = n
                 THEN InstRow(u, name, desc, stage, NoGroup, InProgress, 0, 0)
                 ELSE @[x]]])
     /\ nextId' = [nextId EXCEPT !.inst = @ + 1]
     /\ Served
     /\ UNCHANGED <<calls, evalOut, calc, hist, gate, connState>>

\* WHERE id = ? AND (user_id = ? OR id IN (SELECT project_id FROM project_members WHERE user_id = ?))
OwnerOrMember(d, p, u) ==
  /\ p \in InstIds(d)
  /\ \/ d.inst[p].owner = u
     \/ \E r \in d.mem : r.pid = p /\ r.uid = u

\* PUT /update_project/:id, server.js:663-734
UpdateProject(u, p, name, desc, stage) ==
  /\ Budget
  /\ IF OwnerOrMember(db, p, u)
     THEN Exec([db EXCEPT !.inst[p].name = name, !.inst[p].desc = desc,
                          !.inst[p].stage = stage])
     ELSE Read
  /\ Served
  /\ UNCHANGED <<nextId, calls, evalOut, calc, hist, gate, connState>>

\* POST /add_project_member, server.js:3466-3541
AddProjectMember(p, u, role) ==
  /\ Budget
  /\ IF checkMembershipQuery(db, p, u) # {}
     THEN Read
     ELSE Exec([db EXCEPT !.mem = InsertMember(@, p, u, role, NULL)])
  /\ Served
  /\ hist' = [hist EXCEPT !.rosterEdits = @ + 1]
  /\ UNCHANGED <<nextId, calls, evalOut, calc, gate, connState>>

\* DELETE /remove_project_member with the rows of project_stage_progress of the
\* removed member deleted along with the membership
RemoveProjectMemberCascading(p, u) ==
  /\ Budget
  /\ Exec([db EXCEPT !.mem = {r \in @ : ~(r.pid = p /\ r.uid = u)},
                     !.prog = {r \in @ : ~(r.pid = p /\ r.uid = u)}])
  /\ Served
  /\ hist' = [hist EXCEPT !.rosterEdits = @ + 1]
  /\ UNCHANGED <<nextId, calls, evalOut, calc, gate, connState>>

\* DELETE /remove_project_member, server.js:3544-3560
RemoveProjectMember(p, u) ==
  /\ Budget
  /\ Exec([db EXCEPT !.mem = {r \in @ : ~(r.pid = p /\ r.uid = u)}])
  /\ Served
  /\ hist' = [hist EXCEPT !.rosterEdits = @ + 1]
  /\ UNCHANGED <<nextId, calls, evalOut, calc, gate, connState>>

\* DELETE /delete_project/:id, server.js:766-808: three statements, no transaction
\* the request arrives and deleteNotificationsQuery runs
DP_DelNotif(i, u, p) ==
  /\ Free(i)
  /\ LET c == [IdleCall EXCEPT !.op = "deleteProject", !.uid = u, !.pid = p]
     IN \/ /\ Exec([db EXCEPT !.notif = {x \in @ : x.pid # p}])
           /\ SetCall(i, [c EXCEPT !.pc = "delMembers"])
        \/ /\ UNCHANGED <<db, durable, inTxn>>
           /\ SetCall(i, Finish(c, "500"))
  /\ UNCHANGED <<nextId, ops, evalOut, hist, calc, gate, connState>>

\* deleteProjectMembersQuery: DELETE FROM project_members WHERE project_id = ?
DP_DelMembers(i) ==
  /\ At(i, "deleteProject", "delMembers")
  /\ \/ /\ Exec([db EXCEPT !.mem = {r \in @ : r.pid # calls[i].pid}])
        /\ SetCall(i, [calls[i] EXCEPT !.pc = "delProject"])
        /\ UNCHANGED <<nextId, ops, evalOut, hist, calc, gate, connState>>
     \/ FailPlain(i)

\* deleteProjectQuery: DELETE FROM user_history WHERE id = ? AND user_id = ?;
\* the answer is 200 whatever the number of rows
DP_DelProject(i) ==
  /\ At(i, "deleteProject", "delProject")
  /\ \/ /\ LET c == calls[i]
               gone == IF c.pid \in InstIds(db) /\ db.inst[c.pid].owner = c.uid
                       THEN {c.pid} ELSE {}
           IN Exec([db EXCEPT !.inst = [x \in DOMAIN @ \ gone |-> @[x]]])
        /\ SetCall(i, Finish(calls[i], "200"))
        /\ UNCHANGED <<nextId, ops, evalOut, hist, calc, gate, connState>>
     \/ FailPlain(i)

DeleteProjectStep(i) == DP_DelMembers(i) \/ DP_DelProject(i)

\* PUT /archive_project/:id, server.js:811-832: the owner's instance is archived;
\* 404 when no row was affected
ArchiveProject(u, p) ==
  /\ Budget
  /\ IF p \in InstIds(db) /\ db.inst[p].owner = u
     THEN Exec([db EXCEPT !.inst[p].status = Archived])
     ELSE Read
  /\ Served
  /\ UNCHANGED <<nextId, calls, evalOut, calc, hist, gate, connState>>

\* POST /add_project_member, server.js:3466-3541, statement by statement
\* the request arrives for a known email; checkMemberQuery runs
AM_Check(i, p, u, role) ==
  /\ Free(i)
  /\ LET c == [IdleCall EXCEPT !.op = "addMember", !.uid = u, !.pid = p, !.role = role]
     IN \/ SetCall(i, IF checkMembershipQuery(db, p, u) # {}
                      THEN Finish(c, "400")
                      ELSE [c EXCEPT !.pc = "insert"])
        \/ SetCall(i, Finish(c, "500"))
  /\ UNCHANGED <<db, durable, inTxn, nextId, ops, evalOut, calc, hist, gate, connState>>

\* addMemberQuery, then the roster is read back for the response
AM_Insert(i) ==
  /\ At(i, "addMember", "insert")
  /\ \/ /\ Exec([db EXCEPT !.mem =
                   InsertMember(@, calls[i].pid, calls[i].uid, calls[i].role, NULL)])
        /\ SetCall(i, Finish(calls[i], "200"))
        /\ UNCHANGED <<nextId, ops, evalOut, calc, hist, gate, connState>>
     \/ FailPlain(i)

(***************************************************************************)
(* Emission accrual                                                        *)
(***************************************************************************)
\* what the history keeps of an accrual answered 200 { carbonEmissions: d }: the
\* path, whether the caller owns or is a member of the instance, and the
\* instance's carbon_emit before and after the request
Accrued(path, u, p, d, after) ==
  [path |-> path, pid |-> p, auth |-> OwnerOrMember(db, p, u),
   before |-> db.inst[p].carbon, d |-> d, after |-> after.inst[p].carbon]

\* POST /calculate_emissions, server.js:914-995, from the computed carbonEmissions
\* on: updateProjectQuery adds it where the caller owns or is a member of the
\* project, and the response reports it whatever the UPDATE matched
CalculateEmissions(u, p, d) ==
  /\ Len(hist.acc) < MaxAccruals
  /\ IF OwnerOrMember(db, p, u)
     THEN /\ db.inst[p].carbon + d <= MaxCarbon
          /\ Exec([db EXCEPT !.inst[p].carbon = @ + d])
     ELSE Read
  /\ hist' = [hist EXCEPT !.acc = Append(@, Accrued("desktop", u, p, d, db'))]
  /\ UNCHANGED <<nextId, calls, ops, evalOut, calc, gate, connState>>

\* POST /calculate_emissionsM, server.js:1036-1118: updateQuery adds the session
\* duration and the carbon only WHERE id = ? AND user_id = ?
CalculateEmissionsM(u, p, s, d) ==
  /\ Len(hist.acc) < MaxAccruals
  /\ IF p \in InstIds(db) /\ db.inst[p].owner = u
     THEN /\ db.inst[p].carbon + d <= MaxCarbon
          /\ Exec([db EXCEPT !.inst[p].carbon = @ + d, !.inst[p].sess = @ + s])
     ELSE Read
  /\ hist' = [hist EXCEPT !.acc = Append(@, Accrued("mobile", u, p, d, db'))]
  /\ UNCHANGED <<nextId, calls, ops, evalOut, calc, gate, connState>>

\* POST /user_Update, server.js:736-762: session_duration, carbon_emit and stage
\* are overwritten with the values the client sends
UserUpdate(u, p, name, desc, s, c, stage) ==
  /\ Budget
  /\ IF /\ OwnerOrMember(db, p, u)
        /\ db.inst[p].name = name
        /\ db.inst[p].desc = desc
        /\ db.inst[p].status # Complete
     THEN Exec([db EXCEPT !.inst[p].sess = s, !.inst[p].carbon = c,
                          !.inst[p].stage = stage])
     ELSE Read
  /\ Served
  /\ UNCHANGED <<nextId, calls, evalOut, calc, hist, gate, connState>>

(***************************************************************************)
(* Invitations                                                             *)
(***************************************************************************)
NotifRow(id, sender, recipient, pid, response, status) ==
  [id |-> id, sender |-> sender, recipient |-> recipient, pid |-> pid,
   type |-> "project_invitation", response |-> response, status |-> status]

\* createNotificationQuery with a membership of the recipient written as well
createNotificationQueryAndMember(d, id, sender, recipient, p) ==
  [d EXCEPT !.notif = @ \cup {NotifRow(id, sender, recipient, p, NULL, "unread")},
            !.mem = InsertMember(@, p, recipient, MEMBER, NULL)]

\* createNotificationQuery: INSERT INTO notifications (sender_id, recipient_id,
\* project_id, type, message) VALUES (?, ?, ?, 'project_invitation', ?); response
\* and status are left to their defaults
createNotificationQuery(d, id, sender, recipient, p) ==
  [d EXCEPT !.notif = @ \cup {NotifRow(id, sender, recipient, p, NULL, "unread")}]

\* the email addresses a request can name: a user's (written as the user) or
\* one that no row of users holds
UnknownEmail == "nobody"
Emails == Users \cup {UnknownEmail}

\* getUserQuery: SELECT id FROM users WHERE email = ?
getUserQuery(email) == {u \in Users : u = email}

\* POST /send-invitation, server.js:2090-2124, for a recipient email that is known
SendInvitation(sender, recipient, p) ==
  /\ nextId.notif <= MaxNotif
  /\ Exec(createNotificationQuery(db, nextId.notif, sender, recipient, p))
  /\ nextId' = [nextId EXCEPT !.notif = @ + 1]
  /\ UNCHANGED <<calls, ops, evalOut, calc, hist, gate, connState>>

\* POST /send-invitation, server.js:2090-2124, statement by statement
\* the request arrives and getUserQuery runs: 404 when no user has the email
SI_GetUser(i, sender, email, p) ==
  /\ Free(i)
  /\ LET c == [IdleCall EXCEPT !.op = "send", !.uid = sender, !.email = email, !.pid = p]
         userResults == getUserQuery(email)
     IN \/ IF userResults = {}
           THEN SetCall(i, Finish(c, "404"))
           ELSE \E r \in userResults : SetCall(i, [c EXCEPT !.rcpt = r, !.pc = "insert"])
        \/ SetCall(i, Finish(c, "500"))
  /\ UNCHANGED <<db, durable, inTxn, nextId, ops, evalOut, calc, hist, gate, connState>>

\* createNotificationQuery runs
SI_Insert(i) ==
  /\ At(i, "send", "insert")
  /\ \/ /\ nextId.notif <= MaxNotif
        /\ Exec(createNotificationQuery(db, nextId.notif, calls[i].uid, calls[i].rcpt,
                                        calls[i].pid))
        /\ nextId' = [nextId EXCEPT !.notif = @ + 1]
        /\ SetCall(i, Finish(calls[i], "200"))
        /\ UNCHANGED <<ops, evalOut, calc, hist, gate, connState>>
     \/ FailPlain(i)

\* PUT /invitations/:id/respond, server.js:2183-2254
\* the request arrives and connection.beginTransaction runs
RS_Begin(i, u, n, response) ==
  /\ Free(i)
  /\ LET c == [IdleCall EXCEPT !.op = "respond", !.uid = u, !.ref = n, !.resp = response]
     IN \/ /\ beginTransaction
           /\ SetCall(i, [c EXCEPT !.pc = "update"])
        \/ /\ UNCHANGED <<db, durable, inTxn>>
           /\ SetCall(i, Finish(c, "500"))
  /\ UNCHANGED <<nextId, ops, evalOut, calc, hist, gate, connState>>

\* updateQuery: UPDATE notifications SET response = ?, status = 'read'
\* WHERE id = ? AND recipient_id = ?
respondUpdateQuery(d, n, u, response) ==
  [d EXCEPT !.notif = {IF x.id = n /\ x.recipient = u
                       THEN [x EXCEPT !.response = response, !.status = "read"]
                       ELSE x : x \in @}]

RS_Update(i) ==
  /\ At(i, "respond", "update")
  /\ \/ /\ Exec(respondUpdateQuery(db, calls[i].ref, calls[i].uid, calls[i].resp))
        /\ SetCall(i, [calls[i] EXCEPT
                         !.pc = IF calls[i].resp = "accepted" THEN "getProject" ELSE "commit"])
        /\ UNCHANGED <<nextId, ops, evalOut, calc, hist, gate, connState>>
     \/ FailRollback(i)

\* getProjectIdQuery; results[0].project_id throws in the query callback when no
\* row matches: the promise is never settled, no response is sent and the
\* transaction stays open
RS_GetProject(i) ==
  /\ At(i, "respond", "getProject")
  /\ \/ /\ Read
        /\ LET rows == {x \in db.notif : x.id = calls[i].ref /\ x.recipient = calls[i].uid}
           IN IF rows = {}
              THEN SetCall(i, [calls[i] EXCEPT !.pc = "thrown"])
              ELSE \E x \in rows : SetCall(i, [calls[i] EXCEPT !.tgt = x.pid, !.pc = "insert"])
        /\ UNCHANGED <<nextId, ops, evalOut, calc, hist, gate, connState>>
     \/ FailRollback(i)

\* insertMemberQuery: INSERT INTO project_members (project_id, user_id, role)
\* VALUES (?, ?, 'member'); progress_status is left to its default, NULL
RS_Insert(i) ==
  /\ At(i, "respond", "insert")
  /\ \/ /\ Exec([db EXCEPT !.mem = InsertMember(@, calls[i].tgt, calls[i].uid, MEMBER, NULL)])
        /\ SetCall(i, [calls[i] EXCEPT !.pc = "commit"])
        /\ UNCHANGED <<nextId, ops, evalOut, calc, hist, gate, connState>>
     \/ FailRollback(i)

RS_Commit(i) ==
  /\ At(i, "respond", "commit")
  /\ \/ /\ commit
        /\ SetCall(i, Finish(calls[i], "200"))
        /\ UNCHANGED <<nextId, ops, evalOut, calc, hist, gate, connState>>
     \/ FailRollback(i)

RespondStep(i) ==
  \/ RS_Update(i) \/ RS_GetProject(i) \/ RS_Insert(i) \/ RS_Commit(i)

(***************************************************************************)
(* Project requests                                                        *)
(***************************************************************************)
ReqRow(id, user, title, desc, stage, status) ==
  [id |-> id, user |-> user, title |-> title, desc |-> desc, stage |-> stage,
   status |-> status]

\* POST /project-requests, server.js:3715-3761
SubmitProjectRequest(u, title, desc, stage) ==
  /\ nextId.preq <= MaxReq
  /\ Exec([db EXCEPT !.preq = @ \cup
             {ReqRow(nextId.preq, u, title, desc, stage, "pending")}])
  /\ nextId' = [nextId EXCEPT !.preq = @ + 1]
  /\ UNCHANGED <<calls, ops, evalOut, calc, hist, gate, connState>>

\* PUT /admin/project-requests/:id/reject, server.js:3956-3979
RejectProjectRequest(q) ==
  /\ Budget
  /\ Exec([db EXCEPT !.preq = {IF x.id = q THEN [x EXCEPT !.status = "rejected"] ELSE x
                               : x \in @}])
  /\ Served
  /\ UNCHANGED <<nextId, calls, evalOut, calc, hist, gate, connState>>

\* PUT /admin/project-requests/:id/approve, server.js:3804-3953
\* the request arrives and connection.beginTransaction runs
AP_Begin(i, q) ==
  /\ Free(i)
  /\ LET c == [IdleCall EXCEPT !.op = "approve", !.ref = q]
     IN \/ /\ beginTransaction
           /\ SetCall(i, [c EXCEPT !.pc = "update"])
        \/ /\ UNCHANGED <<db, durable, inTxn>>
           /\ SetCall(i, Finish(c, "500"))
  /\ UNCHANGED <<nextId, ops, evalOut, calc, hist, gate, connState>>

\* updateQuery: UPDATE project_requests SET status = 'approved', ... WHERE id = ?
approveUpdateQuery(d, q) ==
  [d EXCEPT !.preq = {IF x.id = q THEN [x EXCEPT !.status = "approved"] ELSE x : x \in @}]

\* results.affectedRows of updateQuery
approveAffectedRows(d, q) == Cardinality({x \in d.preq : x.id = q})

AP_Update(i) ==
  /\ At(i, "approve", "update")
  /\ \/ /\ approveAffectedRows(db, calls[i].ref) > 0
        /\ Exec(approveUpdateQuery(db, calls[i].ref))
        /\ SetCall(i, [calls[i] EXCEPT !.pc = "getRequest"])
        /\ UNCHANGED <<nextId, ops, evalOut, calc, hist, gate, connState>>
     \/ /\ approveAffectedRows(db, calls[i].ref) = 0
        /\ rollback
        /\ SetCall(i, Finish(calls[i], "404"))
        /\ UNCHANGED <<nextId, ops, evalOut, calc, hist, gate, connState>>
     \/ FailRollback(i)

\* getRequestQuery; the request row is kept in cur as the project it describes
AP_GetRequest(i) ==
  /\ At(i, "approve", "getRequest")
  /\ \/ /\ Read
        /\ LET rows == {x \in db.preq : x.id = calls[i].ref}
           IN \E x \in rows :
                SetCall(i, [calls[i] EXCEPT
                  !.uid = x.user,
                  !.cur = InstRow(x.user, x.title, x.desc, x.stage, NoGroup, InProgress, 0, 0),
                  !.pc = "create"])
        /\ UNCHANGED <<nextId, ops, evalOut, calc, hist, gate, connState>>
     \/ /\ {x \in db.preq : x.id = calls[i].ref} = {}
        /\ rollback
        /\ SetCall(i, Finish(calls[i], "404"))
        /\ UNCHANGED <<nextId, ops, evalOut, calc, hist, gate, connState>>
     \/ FailRollback(i)

\* createProjectQuery
AP_Create(i) ==
  /\ At(i, "approve", "create")
  /\ \/ /\ nextId.inst <= MaxInst
        /\ Exec([db EXCEPT !.inst = [x \in DOMAIN @ \cup {nextId.inst} |->
                   IF x = nextId.inst THEN calls[i].cur ELSE @[x]]])
        /\ nextId' = [nextId EXCEPT !.inst = @ + 1]
        /\ SetCall(i, [calls[i] EXCEPT !.tgt = nextId.inst, !.pc = "setGroup"])
        /\ UNCHANGED <<ops, evalOut, calc, hist, gate, connState>>
     \/ FailRollback(i)

\* updateProjectIdQuery: UPDATE user_history SET project_id = ? WHERE id = ?
AP_SetGroup(i) ==
  /\ At(i, "approve", "setGroup")
  /\ \/ /\ Exec(IF calls[i].tgt \in InstIds(db)
                THEN [db EXCEPT !.inst[calls[i].tgt].gid = calls[i].tgt]
                ELSE db)
        /\ SetCall(i, [calls[i] EXCEPT !.pc = "addOwner"])
        /\ UNCHANGED <<nextId, ops, evalOut, calc, hist, gate, connState>>
     \/ FailRollback(i)

\* the progress_status addOwnerQuery of the approval writes
ApprovalOwnerStatus == InProgress

\* addOwnerQuery: ... VALUES (?, ?, 'project_owner', ?, 'In Progress')
AP_AddOwner(i) ==
  /\ At(i, "approve", "addOwner")
  /\ \/ /\ Exec([db EXCEPT !.mem =
                   InsertMember(@, calls[i].tgt, calls[i].uid, OWNER, ApprovalOwnerStatus)])
        /\ SetCall(i, [calls[i] EXCEPT !.pc = "addLeader"])
        /\ UNCHANGED <<nextId, ops, evalOut, calc, hist, gate, connState>>
     \/ FailRollback(i)

\* addLeaderQuery: ... VALUES (?, ?, 'project_leader', ?, 'In Progress')
AP_AddLeader(i) ==
  /\ At(i, "approve", "addLeader")
  /\ \/ /\ Exec([db EXCEPT !.mem =
                   InsertMember(@, calls[i].tgt, calls[i].uid, LEADER, InProgress)])
        /\ SetCall(i, [calls[i] EXCEPT !.pc = "commit"])
        /\ UNCHANGED <<nextId, ops, evalOut, calc, hist, gate, connState>>
     \/ FailRollback(i)

AP_Commit(i) ==
  /\ At(i, "approve", "commit")
  /\ \/ /\ commit
        /\ SetCall(i, Finish(calls[i], "200"))
        /\ UNCHANGED <<nextId, ops, evalOut, calc, hist, gate, connState>>
     \/ FailRollback(i)

ApproveStep(i) ==
  \/ AP_Update(i) \/ AP_GetRequest(i) \/ AP_Create(i) \/ AP_SetGroup(i)
  \/ AP_AddOwner(i) \/ AP_AddLeader(i) \/ AP_Commit(i)

(***************************************************************************)
(* checkAndUpdateProjectCompletion run on its own over an arbitrary roster *)
(***************************************************************************)
(***************************************************************************)
(* authenticateAdmin, server.js:453-464, and the routes behind it           *)
(***************************************************************************)
\* what a request carries: no Authorization header, a token jwt.verify refuses,
\* a valid token of a user, a valid token of an admin
Tokens == {"none", "bad", "user", "admin"}

authenticateAdminNoRoleTest(tok) ==
  IF tok = "none" THEN "401" ELSE IF tok = "bad" THEN "403" ELSE "next"

\* token == null -> 401; err || user.role !== 'admin' -> 403; else next()
authenticateAdmin(tok) ==
  IF tok = "none" THEN "401"
  ELSE IF tok = "bad" \/ tok # "admin" THEN "403"
  ELSE "next"

\* the routes declared with authenticateAdmin that change rosters, requests
\* and projects
AdminRoutes == {"add_project_member", "remove_project_member", "approve", "reject",
                "admin_delete_project"}

\* the handlers of these routes started so far: each start serves a request or
\* occupies a slot
Load == ops + Cardinality({i \in Slots : calls[i].op # "idle"})

NoGate == [tok |-> "none", route |-> "none", verdict |-> "401", stamp |-> 0, seq |-> 0]

\* next() has been called for a request to route and its handler has not started
Passed(route) ==
  gate.verdict = "next" /\ gate.route = route /\ gate.stamp = Load

\* a request to an admin route arrives and authenticateAdmin answers it or calls
\* next()
Arrive(tok, route) ==
  /\ gate.seq < MaxArrive
  /\ ~(gate.verdict = "next" /\ gate.stamp = Load)
  /\ gate' = [tok |-> tok, route |-> route, verdict |-> authenticateAdmin(tok),
              stamp |-> Load, seq |-> gate.seq + 1]
  /\ UNCHANGED <<db, durable, inTxn, nextId, calls, ops, evalOut, hist, calc, connState>>

\* DELETE /admin/delete_project/:id, server.js:2884-2945
\* the handler starts: connection.beginTransaction
AD_Begin(i, p) ==
  /\ Free(i)
  /\ LET c == [IdleCall EXCEPT !.op = "adminDelete", !.pid = p]
     IN \/ /\ beginTransaction
           /\ SetCall(i, [c EXCEPT !.pc = "delNotif"])
        \/ /\ UNCHANGED <<db, durable, inTxn>>
           /\ SetCall(i, Finish(c, "500"))
  /\ UNCHANGED <<nextId, ops, evalOut, hist, calc, gate, connState>>

\* DELETE FROM notifications WHERE project_id = ?
AD_DelNotif(i) ==
  /\ At(i, "adminDelete", "delNotif")
  /\ \/ /\ Exec([db EXCEPT !.notif = {x \in @ : x.pid # calls[i].pid}])
        /\ SetCall(i, [calls[i] EXCEPT !.pc = "delMembers"])
        /\ UNCHANGED <<nextId, ops, evalOut, hist, calc, gate, connState>>
     \/ FailRollback(i)

\* DELETE FROM project_members WHERE project_id = ?
AD_DelMembers(i) ==
  /\ At(i, "adminDelete", "delMembers")
  /\ \/ /\ Exec([db EXCEPT !.mem = {r \in @ : r.pid # calls[i].pid}])
        /\ SetCall(i, [calls[i] EXCEPT !.pc = "delProject"])
        /\ UNCHANGED <<nextId, ops, evalOut, hist, calc, gate, connState>>
     \/ FailRollback(i)

\* DELETE FROM user_history WHERE id = ?; tgt keeps projectResults.affectedRows
AD_DelProject(i) ==
  /\ At(i, "adminDelete", "delProject")
  /\ \/ /\ Exec([db EXCEPT !.inst = [x \in DOMAIN @ \ {calls[i].pid} |-> @[x]]])
        /\ SetCall(i, [calls[i] EXCEPT
                         !.tgt = IF calls[i].pid \in InstIds(db) THEN 1 ELSE 0,
                         !.pc = "commit"])
        /\ UNCHANGED <<nextId, ops, evalOut, hist, calc, gate, connState>>
     \/ FailRollback(i)

AD_Commit(i) ==
  /\ At(i, "adminDelete", "commit")
  /\ \/ /\ commit
        /\ SetCall(i, Finish(calls[i], IF calls[i].tgt > 0 THEN "200" ELSE "404"))
        /\ UNCHANGED <<nextId, ops, evalOut, hist, calc, gate, connState>>
     \/ FailRollback(i)

AdminDeleteStep(i) ==
  \/ AD_DelNotif(i) \/ AD_DelMembers(i) \/ AD_DelProject(i) \/ AD_Commit(i)

(***************************************************************************)
(* The emission computation.  Numbers are exact: wattages in watts, the     *)
(* session duration s36 in units of 36 seconds, carbon factors in           *)
(* ten-thousandths, so that (W / 3600) * (36 * s36) * factor, in millionths, *)
(* is the integer W * s36 * factor.                                         *)
(***************************************************************************)
\* the value of a JavaScript number expression that is not a number
NotANumber == -1

\* property names every object literal inherits from Object.prototype
ObjectPrototypeKeys == {"constructor", "toString"}

\* getCarbonFactor, server.js:176-183: carbonFactors[region] || 0.412; for an
\* inherited property name the lookup yields a function, which is truthy
getCarbonFactor(region) ==
  IF region = "Singapore" THEN 4120
  ELSE IF region = "Philippines" THEN 5246
  ELSE IF region \in ObjectPrototypeKeys THEN NotANumber
  ELSE 4120

\* a product with something that is not a number is not a number
Times(x, factor) == IF factor = NotANumber THEN NotANumber ELSE x * factor

\* POST /calculate_emissions, server.js:958-969: totalWattUsage sums the CPU, GPU,
\* RAM and PSU watts; carbonEmissions = (totalWattUsage / 3600) * s * carbonFactor
desktopCarbonEmissions(cpu, gpu, ram, psu, s36, region) ==
  Times((cpu + gpu + ram + psu) * s36, getCarbonFactor(region))

\* POST /calculate_emissionsM, server.js:1080-1090: totalWattage sums the CPU, GPU
\* and RAM watts; carbonEmissions = ((totalWattage * s) / 3600) * carbonFactor
mobileCarbonEmissions(cpu, gpu, ram, psu, s36, region) ==
  Times((cpu + gpu + ram) * s36, getCarbonFactor(region))

\* no computation made
NoCalc ==
  [ran |-> FALSE, path |-> "none", cpu |-> 0, gpu |-> 0, ram |-> 0, psu |-> 0,
   s36 |-> 0, region |-> "Singapore", delta |-> 0]

\* one of the two handlers computes carbonEmissions from the inputs at hand
Compute(path) ==
  /\ ~calc.ran
  /\ calc' = [calc EXCEPT
       !.ran = TRUE,
       !.path = path,
       !.delta = IF path = "desktop"
                 THEN desktopCarbonEmissions(calc.cpu, calc.gpu, calc.ram, calc.psu,
                                             calc.s36, calc.region)
                 ELSE mobileCarbonEmissions(calc.cpu, calc.gpu, calc.ram, calc.psu,
                                            calc.s36, calc.region)]
  /\ UNCHANGED <<db, durable, inTxn, nextId, calls, ops, evalOut, hist, gate, connState>>

\* no evaluator result recorded yet
NoEval == [ran |-> FALSE, pid |-> 0, all |-> FALSE]

\* the evaluator is called for project p: its result is recorded
Evaluate(p) ==
  /\ ~evalOut.ran
  /\ LET r == checkAndUpdateProjectCompletion(db, p)
     IN /\ Exec(r.db)
        /\ evalOut' = [ran |-> TRUE, pid |-> p, all |-> r.all]
  /\ UNCHANGED <<nextId, calls, ops, hist, calc, gate, connState>>

\* rosters of project 1: every user has no row, or one row of any role and status
Rosters ==
  {{MemRow(1, 1, u, f[u].role, f[u].ps) : u \in {v \in Users : f[v].in}} :
     f \in [Users -> [in : BOOLEAN, role : Roles, ps : ProgressStatuses]]}

(***************************************************************************)
(* Specifications                                                          *)
(***************************************************************************)
Init ==
  /\ db = EmptyDb
  /\ durable = EmptyDb
  /\ inTxn = FALSE
  /\ nextId = [inst |-> 1, notif |-> 1, preq |-> 1]
  /\ calls = [i \in Slots |-> IdleCall]
  /\ ops = 0
  /\ evalOut = NoEval
  /\ calc = NoCalc
  /\ gate = NoGate
  /\ connState = "authenticated"
  /\ hist = [complete |-> {}, rosterEdits |-> 0, acc |-> <<>>]

\* the stage after st in projectStages, none after the last
Successor(st) ==
  IF \E k \in 1..(Len(projectStages) - 1) : projectStages[k] = st
  THEN projectStages[(CHOOSE k \in 1..(Len(projectStages) - 1) : projectStages[k] = st) + 1]
  ELSE NoStage

\* no multi-step request is in flight
Quiet == \A i \in Slots : calls[i].pc \in {"idle", "done"}

\* the project stage engine, requests served one after the other: projects are
\* created, edited and staffed between completeStage requests, and each
\* completeStage request may name any next stage
StageNext ==
  \/ \E l \in {NoUser, "O"}, ms \in {{"A"}, {"A", "B"}} :
       Quiet /\ InstIds(db) = {} /\ AdminCreateProject("O", l, ms, "X", "d", projectStages[1])
  \/ \E st \in {projectStages[1], projectStages[2]} : Quiet /\ UserHistory("B", "X", "d", st)
  \/ \E u \in Users, p \in InstIds(db), nm \in Names, de \in Descs :
       Quiet /\ UpdateProject(u, p, nm, de, db.inst[p].stage)
  \/ \E p \in InstIds(db), u \in Users, r \in Roles : Quiet /\ AddProjectMember(p, u, r)
  \/ \E p \in InstIds(db), u \in Users : Quiet /\ RemoveProjectMember(p, u)
  \/ \E i \in Slots, u \in Users, p \in InstIds(db) \cup {nextId.inst},
        ns \in StageLabels \cup {NoStage} : Quiet /\ CS_Get(i, u, p, ns)
  \/ \E i \in Slots : CompleteStageStep(i)

SpecStage == Init /\ [][StageNext]_vars

\* the project stage engine under load: completeStage requests of the members of
\* one project, each naming the stage that follows, with their steps interleaved
ConcNext ==
  \/ \E l \in {NoUser, "O"}, ms \in SUBSET {"A", "B"} :
       /\ InstIds(db) = {}
       /\ AdminCreateProject("O", l, ms, "X", "d", projectStages[1])
  \/ \E i \in Slots, p \in InstIds(db) :
       \E u \in {r.uid : r \in MembersOf(db, p)} \ {calls[j].uid : j \in {k \in Slots : calls[k].op # "idle"}} :
         CS_Get(i, u, p, Successor(db.inst[p].stage))
  \/ \E i \in Slots : CompleteStageStep(i)

SpecConc == Init /\ [][ConcNext]_vars


\* completeStage requests of the members of one project and the owner's request
\* to archive it, interleaved
ArchiveNext ==
  \/ \E ms \in {{"A"}, {"A", "B"}} :
       /\ InstIds(db) = {}
       /\ AdminCreateProject("O", NoUser, ms, "X", "d", projectStages[1])
  \/ \E u \in Users, p \in InstIds(db) : ArchiveProject(u, p)
  \/ \E i \in Slots, p \in InstIds(db) :
       \E u \in {r.uid : r \in MembersOf(db, p)} :
         \E ns \in {Successor(db.inst[p].stage), NoStage} : CS_Get(i, u, p, ns)
  \/ \E i \in Slots : CompleteStageStep(i)

SpecArchive == Init /\ [][ArchiveNext]_vars

\* the roster of one project: members added by the admin and by accepted
\* invitations, the requests interleaved
MembersNext ==
  \/ \E ms \in SUBSET {"A"} :
       InstIds(db) = {} /\ AdminCreateProject("O", NoUser, ms, "X", "d", projectStages[1])
  \/ \E i \in Slots, p \in InstIds(db), u \in {"A", "B"}, r \in {LEADER, MEMBER} :
       AM_Check(i, p, u, r)
  \/ \E i \in Slots : AM_Insert(i)
  \/ \E r \in {"A", "B"}, p \in InstIds(db) : SendInvitation("O", r, p)
  \/ \E i \in Slots, u \in {"A", "B"}, n \in 1..MaxNotif : RS_Begin(i, u, n, "accepted")
  \/ \E i \in Slots : RespondStep(i)

SpecMembers == Init /\ [][MembersNext]_vars

\* the transactional requests, one at a time, on a connection that can be lost
\* while one of their statements is in flight
LossNext ==
  \/ \E ms \in {{"A"}, {"A", "B"}} :
       InstIds(db) = {} /\ AdminCreateProject("O", NoUser, ms, "X", "d", projectStages[1])
  \/ \E p \in InstIds(db) : SendInvitation("O", "B", p)
  \/ SubmitProjectRequest("B", "Y", "d", projectStages[1])
  \/ \E i \in Slots, p \in InstIds(db) :
       \E u \in {r.uid : r \in MembersOf(db, p)} \ {calls[j].uid : j \in {k \in Slots : calls[k].op # "idle"}} :
         Quiet /\ CS_Get(i, u, p, Successor(db.inst[p].stage))
  \/ \E i \in Slots : CompleteStageStep(i)
  \/ \E i \in Slots, n \in 1..MaxNotif : Quiet /\ RS_Begin(i, "B", n, "accepted")
  \/ \E i \in Slots : RespondStep(i)
  \/ \E i \in Slots, q \in 1..MaxReq : Quiet /\ AP_Begin(i, q)
  \/ \E i \in Slots : ApproveStep(i)
  \/ \E i \in Slots : ConnectionLost(i)

SpecLoss == Init /\ [][LossNext]_vars

\* completeStage requests of the members of a project, one request at a time,
\* between removals of members and deletions of the project by its owner and
\* by the admin
HistoryNext ==
  \/ \E ms \in {{"A"}, {"A", "B"}} :
       InstIds(db) = {} /\ AdminCreateProject("O", NoUser, ms, "X", "d", projectStages[1])
  \/ \E i \in Slots, p \in InstIds(db) :
       \E u \in {r.uid : r \in MembersOf(db, p)} :
         Quiet /\ CS_Get(i, u, p, Successor(db.inst[p].stage))
  \/ \E i \in Slots : CompleteStageStep(i)
  \/ \E p \in InstIds(db), u \in {"A", "B"} : Quiet /\ RemoveProjectMember(p, u)
  \/ \E i \in Slots, p \in InstIds(db), u \in {"O", "A"} : Quiet /\ DP_DelNotif(i, u, p)
  \/ \E i \in Slots : DeleteProjectStep(i)
  \/ \E i \in Slots, p \in InstIds(db) : Quiet /\ AD_Begin(i, p)
  \/ \E i \in Slots : AdminDeleteStep(i)

SpecHistory == Init /\ [][HistoryNext]_vars

\* invitations sent to known and unknown email addresses, for projects that
\* exist and projects that do not
SendNext ==
  \/ \E l \in {NoUser, "O"}, ms \in SUBSET {"A"} :
       InstIds(db) = {} /\ AdminCreateProject("O", l, ms, "X", "d", projectStages[1])
  \/ \E i \in Slots, email \in {"A", "B", UnknownEmail}, p \in InstIds(db) \cup {MaxInst} :
       SI_GetUser(i, "O", email, p)
  \/ \E i \in Slots : SI_Insert(i)

SpecSend == Init /\ [][SendNext]_vars

\* a project, an invitation and a project request are created; then requests
\* to the admin routes arrive, from admins and from everybody else, one at a time
AdminNext ==
  \/ \E ms \in {{"A"}} :
       /\ gate = NoGate /\ InstIds(db) = {}
       /\ AdminCreateProject("O", NoUser, ms, "X", "d", projectStages[1])
  \/ \E p \in InstIds(db) : gate = NoGate /\ SendInvitation("O", "B", p)
  \/ gate = NoGate /\ SubmitProjectRequest("B", "X", "d", projectStages[1])
  \/ \E tok \in Tokens, route \in AdminRoutes : Quiet /\ Arrive(tok, route)
  \/ \E p \in InstIds(db) :
       Passed("add_project_member") /\ AddProjectMember(p, "B", MEMBER)
  \/ \E p \in InstIds(db) :
       Passed("remove_project_member") /\ RemoveProjectMember(p, "A")
  \/ \E q \in 1..MaxReq : Passed("reject") /\ RejectProjectRequest(q)
  \/ \E i \in Slots, q \in 1..MaxReq : Passed("approve") /\ AP_Begin(i, q)
  \/ \E i \in Slots, p \in InstIds(db) : Passed("admin_delete_project") /\ AD_Begin(i, p)
  \/ \E i \in Slots : ApproveStep(i)
  \/ \E i \in Slots : AdminDeleteStep(i)

SpecAdmin == Init /\ [][AdminNext]_vars

\* the emission computation over devices, session durations and regions
Regions == {"Singapore", "Philippines", "Mars", "constructor"}

InitFormula ==
  /\ \E cpu \in {0, 65}, gpu \in {0, 150}, ram \in {5}, psu \in {0, 30},
        s36 \in {0, 50, 100}, region \in Regions :
       calc = [NoCalc EXCEPT !.cpu = cpu, !.gpu = gpu, !.ram = ram, !.psu = psu,
                             !.s36 = s36, !.region = region]
  /\ db = EmptyDb
  /\ durable = EmptyDb
  /\ inTxn = FALSE
  /\ nextId = [inst |-> 1, notif |-> 1, preq |-> 1]
  /\ calls = [i \in Slots |-> IdleCall]
  /\ ops = 0
  /\ evalOut = NoEval
  /\ gate = NoGate
  /\ connState = "authenticated"
  /\ hist = [complete |-> {}, rosterEdits |-> 0, acc |-> <<>>]

FormulaNext == \E path \in {"desktop", "mobile"} : Compute(path)

SpecFormula == InitFormula /\ [][FormulaNext]_vars

\* the evaluator over arbitrary rosters
InitEval ==
  /\ \E ros \in Rosters :
       db = [EmptyDb EXCEPT
               !.inst = [x \in {1} |-> InstRow("O", "X", "d", projectStages[1], 1, InProgress, 0, 0)],
               !.mem = ros]
  /\ durable = db
  /\ inTxn = FALSE
  /\ nextId = [inst |-> 2, notif |-> 1, preq |-> 1]
  /\ calls = [i \in Slots |-> IdleCall]
  /\ ops = 0
  /\ evalOut = NoEval
  /\ calc = NoCalc
  /\ gate = NoGate
  /\ connState = "authenticated"
  /\ hist = [complete |-> {}, rosterEdits |-> 0, acc |-> <<>>]

EvalNext == \E p \in InstIds(db) : Evaluate(p)

SpecEval == InitEval /\ [][EvalNext]_vars

\* emission accrual on one project, with the session update of the client
Deltas == {1, 2}

AccrualNext ==
  \/ \E ms \in SUBSET {"A"} :
       InstIds(db) = {} /\ AdminCreateProject("O", NoUser, ms, "X", "d", projectStages[1])
  \/ \E u \in Users, p \in InstIds(db), d \in Deltas : CalculateEmissions(u, p, d)
  \/ \E u \in Users, p \in InstIds(db), d \in Deltas : CalculateEmissionsM(u, p, 1, d)
  \/ \E u \in Users, p \in InstIds(db), c \in 0..1 :
       UserUpdate(u, p, "X", "d", 0, c, db.inst[p].stage)

SpecAccrual == Init /\ [][AccrualNext]_vars

\* invitations to one project and the responses to them
InviteNext ==
  \/ \E ms \in SUBSET {"A"} :
       InstIds(db) = {} /\ AdminCreateProject("O", NoUser, ms, "X", "d", projectStages[1])
  \/ \E r \in Users, p \in InstIds(db) : SendInvitation("O", r, p)
  \/ \E i \in Slots, u \in Users, n \in 1..MaxNotif, a \in {"accepted", "rejected"} :
       RS_Begin(i, u, n, a)
  \/ \E i \in Slots : RespondStep(i)

SpecInvite == Init /\ [][InviteNext]_vars

\* project requests and their disposition by the admin
RequestNext ==
  \/ \E u \in Users, st \in StageLabels : SubmitProjectRequest(u, "X", "d", st)
  \/ \E q \in 1..MaxReq : RejectProjectRequest(q)
  \/ \E i \in Slots, q \in 1..MaxReq : AP_Begin(i, q)
  \/ \E i \in Slots : ApproveStep(i)

SpecRequests == Init /\ [][RequestNext]_vars

\* completeStage requests served one after the other, by members, the owner
\* and outsiders, with and without nextStage
TerminalNext ==
  \/ \E l \in {NoUser, "O"}, ms \in {{"A"}, {"A", "B"}} :
       InstIds(db) = {} /\ AdminCreateProject("O", l, ms, "X", "d", projectStages[1])
  \/ \E i \in Slots, u \in Users, p \in InstIds(db) :
       \E ns \in {NoStage, Successor(db.inst[p].stage)} : Quiet /\ CS_Get(i, u, p, ns)
  \/ \E i \in Slots : CompleteStageStep(i)

SpecTerminal == Init /\ [][TerminalNext]_vars

\* send-invitation requests while the store comes and goes
RetryStep(i) ==
  \/ QD_Unavailable(i)
  \/ QD_Timer(i)
  \/ Runs(i) /\ SI_Insert(i)

RetryNext ==
  \/ \E ms \in SUBSET {"A"} :
       InstIds(db) = {} /\ AdminCreateProject("O", NoUser, ms, "X", "d", projectStages[1])
  \/ \E i \in Slots, email \in {"A", "B", UnknownEmail}, p \in InstIds(db) :
       connState = "authenticated" /\ SI_GetUser(i, "O", email, p)
  \/ \E i \in Slots : RetryStep(i)
  \/ Disconnect
  \/ Reconnect

\* the event loop runs every callback and timer that is due, and a statement
\* that is tried again and again gets through if the store is back again and
\* again; the store need not come back
SpecRetry ==
  /\ Init /\ [][RetryNext]_vars
  /\ \A i \in Slots : WF_vars(QD_Unavailable(i) \/ QD_Timer(i))
  /\ \A i \in Slots : SF_vars(Runs(i) /\ SI_Insert(i))

(***************************************************************************)
(* Properties                                                              *)
(***************************************************************************)
Errors == {"404", "500"}

\* a completeStage request that has been answered without an error
Answered(c) == c.op = "completeStage" /\ c.pc = "done" /\ c.res \notin Errors

\* C1 (completion evaluator result): whatever the roster, the evaluator reports
\* complete exactly when the instance has at least one membership whose role is
\* not owner and none of these memberships has a status other than Stage
\* Complete; with no such membership it reports not complete.
C1_EvaluatorResult ==
  evalOut.ran =>
    LET non == {r \in db.mem : r.pid = evalOut.pid /\ r.role \in {LEADER, MEMBER}}
        pending == {r \in non : r.ps \in {NULL, NotStarted, InProgress}}
    IN /\ evalOut.all <=> (Cardinality(non) >= 1 /\ Cardinality(pending) = 0)
       /\ Cardinality(non) = 0 => ~evalOut.all

\* the evaluator has run on a roster that has an owner row marked Stage Complete
\* and no row of another role
C1_Witness ==
  /\ evalOut.ran
  /\ ~evalOut.all
  /\ \E r \in db.mem : r.pid = evalOut.pid /\ r.role = OWNER /\ r.ps = StageComplete
  /\ \A r \in db.mem : r.pid = evalOut.pid => r.role = OWNER

\* C2 (owner progress invariant): every membership with role owner has a
\* null progress status, in the store as the connection sees it.
C2_OwnerProgressNull ==
  \A r \in db.mem : r.role = OWNER => r.ps = NULL

\* C3 (single next-stage instance): the committed store never holds two
\* non-archived instances of one project group with the same stage label.
C3_SingleNextStageInstance ==
  \A x \in InstIds(durable), y \in InstIds(durable) :
    (/\ x # y
     /\ durable.inst[x].gid # NoGroup
     /\ durable.inst[x].gid = durable.inst[y].gid
     /\ durable.inst[x].stage = durable.inst[y].stage
     /\ durable.inst[x].status # Archived
     /\ durable.inst[y].status # Archived) => FALSE

\* C4 (completion monotonicity): an instance for which a committed completeStage
\* request has reported all members complete is, as long as it exists, still
\* complete for the evaluator.
C4_CompletionMonotone ==
  \A p \in hist.complete :
    p \in InstIds(db) => AllCompleted(getMembersQuery(db, p))

\* C5 (exactly-once completion observation): when every non-owner member of an
\* instance has had one completeStage request for the following stage answered,
\* and no request has failed, exactly one of these answers reports allCompleted.
C5_ExactlyOneObservesAll ==
  \A p \in InstIds(db) :
    LET cs == {i \in Slots : Answered(calls[i]) /\ calls[i].pid = p}
        callers == {calls[i].uid : i \in cs}
        members == {r.uid : r \in getMembersQuery(db, p)}
    IN (/\ cs # {}
        /\ \A i \in Slots : calls[i].res \notin Errors
        /\ Cardinality(callers) = Cardinality(cs)
        /\ callers = members)
       => Cardinality({i \in cs : calls[i].all}) = 1

\* C6 (all-or-nothing completeStage): after a completeStage request of user u on
\* instance p has failed with an error response, and no other request of u on p
\* was made, the committed store holds no progress record of (p, u).
C6_FailedCallLeavesNothing ==
  \A i \in Slots :
    (/\ calls[i].op = "completeStage"
     /\ calls[i].pc = "done"
     /\ calls[i].res = "500"
     /\ \A j \in Slots \ {i} :
          ~(calls[j].op = "completeStage" /\ calls[j].uid = calls[i].uid
            /\ calls[j].pid = calls[i].pid))
    => ~\E r \in durable.prog : r.pid = calls[i].pid /\ r.uid = calls[i].uid

\* C9 (two-member stage hand-over): on an instance p with one owner O and two
\* non-owner members whose roster no admin has changed, the first completeStage
\* request, made by a member A for the following stage S, is answered
\* Stage-User-Completed and names an instance of stage S on which A is In
\* Progress, B is Not Started and O has a null status; the second request, made
\* by B, is answered Stage-Completed, names the same instance, leaves one
\* instance of stage S in the group and B In Progress there, with one row each
\* for O, A and B.
C9_TwoMemberHandOver ==
  \A p \in InstIds(db) :
    LET c1 == calls[1]
        c2 == calls[2]
        ros == MembersOf(db, p)
        own == {r \in ros : r.role = OWNER}
        non == ros \ own
        S == Successor(db.inst[p].stage)
        t == c1.tgt
    IN (/\ hist.rosterEdits = 0
        /\ Cardinality(own) = 1 /\ Cardinality(non) = 2
        /\ Cardinality({r.uid : r \in ros}) = 3
        /\ S # NoStage
        /\ Answered(c1) /\ c1.pid = p /\ c1.next = S
        /\ c1.uid \in {r.uid : r \in non})
       =>
       /\ c1.res = "Stage-User-Completed"
       /\ t \in InstIds(db) /\ t # p /\ db.inst[t].stage = S
       /\ c2.op = "idle" =>
            /\ \A r \in MembersOf(db, t) :
                 r.ps = (IF r.role = OWNER THEN NULL
                         ELSE IF r.uid = c1.uid THEN InProgress ELSE NotStarted)
            /\ \A u \in {r.uid : r \in ros} : checkMembershipQuery(db, t, u) # {}
       /\ (/\ Answered(c2) /\ c2.pid = p /\ c2.next = S
           /\ c2.uid \in {r.uid : r \in non} \ {c1.uid})
          =>
          /\ c2.res = "Stage-Completed"
          /\ c2.tgt = t
          /\ Cardinality({x \in InstIds(db) :
                 db.inst[x].stage = S /\ db.inst[x].gid = db.inst[t].gid}) = 1
          /\ \A r \in checkMembershipQuery(db, t, c2.uid) : r.ps = InProgress
          /\ \A u \in {r.uid : r \in ros} : Cardinality(checkMembershipQuery(db, t, u)) = 1

\* C7 (accrual additivity): when two emission accruals by owners or members of
\* an instance have been answered, the carbon_emit of the instance after the
\* second equals its value before the first plus the two reported deltas.
C7_AccrualAdditive ==
  \A p \in InstIds(db) :
    LET es == SelectSeq(hist.acc, LAMBDA e : e.pid = p /\ e.auth)
    IN Len(es) = 2 => es[2].after = es[1].before + es[1].d + es[2].d

\* C8 (idempotent invitation response): when the recipient of an invitation has
\* answered it 'accepted' twice and both requests succeeded, the committed store
\* holds exactly one membership of the recipient on the target instance.
C8_IdempotentAccept ==
  \A n \in durable.notif :
    LET acc == {i \in Slots : /\ calls[i].op = "respond" /\ calls[i].pc = "done"
                              /\ calls[i].res = "200" /\ calls[i].resp = "accepted"
                              /\ calls[i].ref = n.id /\ calls[i].uid = n.recipient}
        rows == checkMembershipQuery(durable, n.pid, n.recipient)
    IN (/\ Cardinality(acc) = 2
        /\ \A r \in rows : r.role = MEMBER /\ r.ps = NULL)
       => Cardinality(rows) = 1

\* C10 (request approval creates exactly one project): when approvals of a
\* request have succeeded and no request to the server has failed, the committed
\* store holds exactly one instance created from the request; it is In Progress
\* and the requester has exactly two memberships on it, an owner and a leader.
C10_ApprovalCreatesOne ==
  \A q \in durable.preq :
    LET ap == {i \in Slots : /\ calls[i].op = "approve" /\ calls[i].pc = "done"
                             /\ calls[i].res = "200" /\ calls[i].ref = q.id}
        made == {x \in InstIds(durable) : \E i \in ap : calls[i].tgt = x}
    IN (/\ ap # {}
        /\ \A i \in Slots : calls[i].res \notin Errors)
       => /\ Cardinality(made) = 1
          /\ \A x \in made :
               /\ durable.inst[x].status = InProgress
               /\ {r.role : r \in checkMembershipQuery(durable, x, q.user)} = {OWNER, LEADER}
               /\ Cardinality(checkMembershipQuery(durable, x, q.user)) = 2

\* C11 (decided requests are terminal): a project request whose committed status
\* is approved or rejected keeps that status in every later step.
C11_DecidedRequestsTerminal ==
  [][\A q \in durable.preq :
       q.status \in {"approved", "rejected"} =>
         \E q2 \in durable'.preq : q2.id = q.id /\ q2.status = q.status]_vars

\* C12 (completeStage membership precondition): while no admin has edited a
\* roster, every committed progress record belongs to a user who owns the
\* instance or has a membership on it: a request of anyone else wrote nothing.
C12_NonMemberCompleteNoEffect ==
  hist.rosterEdits = 0 =>
    \A r \in durable.prog :
      r.pid \in InstIds(durable) =>
        \/ durable.inst[r.pid].owner = r.uid
        \/ checkMembershipQuery(durable, r.pid, r.uid) # {}

\* C13 (archived instances are absent for completeStage): an instance whose
\* committed status is Archived keeps that status in every later step.
C13_ArchivedStaysArchived ==
  [][\A p \in InstIds(durable) :
       durable.inst[p].status = Archived =>
         p \in InstIds(durable') /\ durable'.inst[p].status = Archived]_vars

\* C14 (membership uniqueness on addMember): an addMember request for a user who
\* has a membership on the instance is answered with an error; and while at most
\* one invitation response has been made, the committed roster holds at most one
\* membership per (instance, user).
C14_AddMemberUnique ==
  (Cardinality({i \in Slots : calls[i].op = "respond"}) <= 1) =>
    \A p \in InstIds(durable), u \in Users :
      Cardinality(checkMembershipQuery(durable, p, u)) <= 1

\* C15 (accrual authorization and reported delta): every accrual that was
\* answered with a delta left carbon_emit unchanged when the caller neither owns
\* the instance nor is a member of it, and raised it by exactly the reported
\* delta when the caller is the owner or a member.
C15_ReportedDeltaApplied ==
  \A k \in 1..Len(hist.acc) :
    LET e == hist.acc[k]
    IN IF e.auth THEN e.after = e.before + e.d ELSE e.after = e.before

\* C16 (accrual formula): on either path the computed delta is
\* (W / 3600) * s * factor(r), W being the sum of the CPU, GPU, RAM and PSU watts
\* and factor(r) 0.5246 for Philippines and 0.412 for Singapore and for every
\* other region (in millionths, with s = 36 * s36: W * s36 * factor * 10^4).
C16_AccrualFormula ==
  calc.ran =>
    calc.delta = (calc.cpu + calc.gpu + calc.ram + calc.psu) * calc.s36
                   * (IF calc.region = "Philippines" THEN 5246 ELSE 4120)

\* C17 (admin-only operations): a step in which authenticateAdmin looks at a
\* request changes nothing of the store, the transaction or the requests in
\* progress; a request whose identity is not an admin's is answered 401 or 403;
\* and while the last request looked at is not an admin's, no handler of an
\* admin route starts.
C17_AdminOnly ==
  [][/\ gate' # gate =>
          /\ db' = db /\ durable' = durable /\ inTxn' = inTxn
          /\ calls' = calls /\ nextId' = nextId
          /\ gate'.tok # "admin" => gate'.verdict \in {"401", "403"}
     /\ gate.tok # "admin" => Load' = Load]_vars

\* a valid token of a user has been refused on the remove route while the
\* store holds memberships, a notification and a project request
C17_Witness ==
  /\ gate.tok = "user"
  /\ gate.route = "remove_project_member"
  /\ gate.verdict = "403"
  /\ db.mem # {} /\ db.notif # {} /\ db.preq # {}

\* C18 (no resumption after connection loss): once a statement of a
\* transactional request has met a lost connection, no later step of that
\* request changes the committed store.
C18_NoResumptionAfterLoss ==
  [][\A i \in Slots :
       (calls[i].lost /\ calls'[i] # calls[i]) => durable' = durable]_vars

\* C19 (progress history is preserved): no step removes a committed progress
\* record; a step that commits the removal of a membership or of a project
\* instance leaves the committed progress records exactly as they were; and
\* the committed records hold one record per (instance, user, stage), with
\* status Complete.
C19_ProgressPreserved ==
  [][/\ durable.prog \subseteq durable'.prog
     /\ (\/ Cardinality(durable'.mem) < Cardinality(durable.mem)
         \/ InstIds(durable') # InstIds(durable) /\ InstIds(durable') \subseteq InstIds(durable))
        => durable'.prog = durable.prog
     /\ \A r1, r2 \in durable'.prog :
          /\ r1.status = Complete
          /\ (r1.pid = r2.pid /\ r1.uid = r2.uid /\ r1.stage = r2.stage) => r1 = r2]_vars

\* a member has completed the same stage twice, has then been removed from the
\* project, and the progress record is still there
C19_Witness ==
  /\ hist.rosterEdits > 0
  /\ \E r \in durable.prog :
       /\ Cardinality({i \in Slots : /\ calls[i].op = "completeStage" /\ calls[i].pc = "done"
                                     /\ calls[i].res \notin Errors
                                     /\ calls[i].pid = r.pid /\ calls[i].uid = r.uid}) = 2
       /\ r.pid \in InstIds(durable)
       /\ checkMembershipQuery(durable, r.pid, r.uid) = {}

\* C20 (invite creates a notification and nothing else): every step of a
\* send-invitation request leaves the memberships and the project instances
\* as they are; a request naming an unknown email ends with 404 or 500 at its
\* first step and no step of it touches the notifications; a request that
\* ends with 200 has added exactly one notification, of type
\* project_invitation, with a null response, addressed to the user who has
\* the email.
C20_InviteCreatesNotificationOnly ==
  [][\A i \in Slots :
       (calls'[i].op = "send" /\ calls'[i] # calls[i]) =>
         /\ db'.mem = db.mem /\ durable'.mem = durable.mem
         /\ db'.inst = db.inst
         /\ calls'[i].email = UnknownEmail =>
              /\ calls'[i].res \in {"404", "500"}
              /\ db'.notif = db.notif
         /\ calls'[i].res = "404" => calls'[i].email \notin Users /\ db'.notif = db.notif
         /\ calls'[i].res = "200" =>
              \E n \in db'.notif :
                /\ n \notin db.notif
                /\ db'.notif = db.notif \cup {n}
                /\ n.type = "project_invitation"
                /\ n.response = NULL
                /\ n.recipient = calls'[i].email
                /\ n.sender = calls'[i].uid /\ n.pid = calls'[i].pid
         /\ calls'[i].res \notin {"200"} => db'.notif = db.notif]_vars

\* one invitation has reached a known recipient and one request naming an
\* unknown email has been answered 404, with the roster of the project in place
C20_Witness ==
  /\ \E i \in Slots : calls[i].op = "send" /\ calls[i].res = "200"
  /\ \E i \in Slots : calls[i].op = "send" /\ calls[i].res = "404"
  /\ Cardinality(db.notif) = 1
  /\ db.mem # {}

\* C21 (rejected invitations have no membership effect): when a respond
\* request with response accepted and one with response rejected have both
\* been answered 200, every committed membership that respond created (role
\* member, progress status null) belongs to the recipient of a notification
\* of that project whose recorded response is accepted.
C21_MembershipOnlyIfAccepted ==
  (/\ \A i \in Slots : calls[i].op = "respond" /\ calls[i].pc = "done" /\ calls[i].res = "200"
   /\ calls[1].resp = "accepted" /\ calls[2].resp = "rejected")
  => \A r \in durable.mem :
       (r.role = MEMBER /\ r.ps = NULL) =>
         \E n \in durable.notif :
           n.pid = r.pid /\ n.recipient = r.uid /\ n.response = "accepted"

\* C22 (terminal-stage outcome): when a completeStage request without
\* nextStage commits, it answers Project-Completed exactly when the committed
\* roster of its instance passes the evaluator, and the instance is then
\* Complete; otherwise it answers User-Stage-Completed and the instance row
\* is as before; either way the set of instances, every other instance and
\* every membership of another instance are as they were before the request.
C22_TerminalOutcome ==
  [][\A i \in Slots :
       (/\ At(i, "completeStage", "commit") /\ calls[i].next = NoStage
        /\ calls'[i].pc = "done" /\ calls'[i].res \notin Errors) =>
         LET p == calls[i].pid
             all == AllCompleted(getMembersQuery(durable', p))
         IN /\ calls'[i].res = (IF all THEN "Project-Completed" ELSE "User-Stage-Completed")
            /\ all => durable'.inst[p].status = Complete
            /\ ~all => durable'.inst[p] = durable.inst[p]
            /\ InstIds(durable') = InstIds(durable)
            /\ \A q \in InstIds(durable) \ {p} : durable'.inst[q] = durable.inst[q]
            /\ {r \in durable'.mem : r.pid # p} = {r \in durable.mem : r.pid # p}]_vars

\* of two members, one has finished the terminal stage alone and the other
\* has then finished it for the project
C22_Witness ==
  /\ \E i \in Slots : /\ calls[i].op = "completeStage" /\ calls[i].next = NoStage
                      /\ calls[i].res = "User-Stage-Completed"
  /\ \E i \in Slots : /\ calls[i].op = "completeStage" /\ calls[i].next = NoStage
                      /\ calls[i].res = "Project-Completed"
                      /\ durable.inst[calls[i].pid].status = Complete

\* C23 (found-branch target): whenever a completeStage request has taken the
\* found branch, the instance it is about to attach the caller to is not
\* archived, carries the stage label nextStage, belongs to the project group
\* of the current instance and is not the current instance.
C23_FoundBranchTarget ==
  \A i \in Slots :
    (At(i, "completeStage", "chkMem") /\ calls[i].tgt \in InstIds(db)) =>
      LET c == calls[i]
          t == db.inst[c.tgt]
      IN /\ t.status # Archived
         /\ t.stage = c.next
         /\ t.gid = GroupOf(c.cur, c.pid)
         /\ c.tgt # c.pid

\* C24 (roster migration on creation): when a completeStage request that
\* created the next-stage instance commits, the new instance is In Progress
\* with zero carbon_emit and session_duration; it has as many membership rows
\* per user and role as the current instance, with status null for owner
\* rows, In Progress for the caller's other rows and Not Started for the
\* rest; and the current instance has the rows per user and role it had
\* before the request.
C24_RosterMigration ==
  [][\A i \in Slots :
       (/\ At(i, "completeStage", "commit") /\ calls[i].branch \in {"create", "empty"}
        /\ calls'[i].pc = "done" /\ calls'[i].res \notin Errors) =>
         LET c == calls[i]
             n == durable'.inst[c.tgt]
         IN /\ c.tgt \notin InstIds(durable) /\ c.tgt \in InstIds(durable')
            /\ n.status = InProgress /\ n.carbon = 0 /\ n.sess = 0
            /\ n.stage = c.next
            /\ \A u \in Users, role \in Roles :
                 /\ RowCount(durable'.mem, c.tgt, u, role) = RowCount(durable'.mem, c.pid, u, role)
                 /\ RowCount(durable'.mem, c.pid, u, role) = RowCount(durable.mem, c.pid, u, role)
            /\ \A r \in MembersOf(durable', c.tgt) :
                 r.ps = IF r.role = OWNER THEN NULL
                        ELSE IF r.uid = c.uid THEN InProgress ELSE NotStarted]_vars

\* a member has moved a project with an owner, a leader and two members to
\* its next stage, and the new instance holds the four rows
C24_Witness ==
  \E i \in Slots :
    /\ calls[i].op = "completeStage" /\ calls[i].pc = "done" /\ calls[i].branch = "create"
    /\ calls[i].res \notin Errors
    /\ \E r \in MembersOf(durable, calls[i].tgt) : r.ps = NULL
    /\ \E r \in MembersOf(durable, calls[i].tgt) : r.ps = InProgress
    /\ \E r \in MembersOf(durable, calls[i].tgt) : r.ps = NotStarted
    /\ Cardinality(MembersOf(durable, calls[i].tgt)) = 4

\* C25 (fixed stage order): a completeStage request that is creating or
\* joining a next-stage instance names the stage that follows the stage of
\* its current instance in projectStages.
C25_FixedStageOrder ==
  \A i \in Slots :
    (/\ calls[i].op = "completeStage" /\ calls[i].pc \in {"chkMem", "transfer"}
     /\ calls[i].branch \in {"found", "create"}) =>
      calls[i].next = Successor(calls[i].cur.stage)

\* C26 (bounded retry of transient store errors): if the store stays
\* unreachable from some time on, every request whose statement is with
\* queryDatabase is nevertheless answered in the end.
C26_EveryRequestAnswered ==
  <>[](connState = "disconnected") =>
    \A i \in Slots : Pending(calls[i]) ~> (calls[i].pc = "done")

\* C27 (non-owner memberships always carry a progress status): every
\* committed membership whose role is not owner has a progress status among
\* Not Started, In Progress and Stage Complete.
C27_NonOwnerHasProgress ==
  \A r \in durable.mem : r.role # OWNER => r.ps \in {NotStarted, InProgress, StageComplete}

\* C28 (isolation of concurrent units of work): a completeStage request that
\* has been answered without an error has its progress record in the
\* committed store, whatever the other request on the connection did.
C28_SuccessfulWritesSurvive ==
  \A i \in Slots :
    Answered(calls[i]) =>
      \E r \in durable.prog : r.pid = calls[i].pid /\ r.uid = calls[i].uid

\* C29 (user delete-project has no partial effect): no step of a
\* delete_project request of a user who does not own the instance it names
\* changes the instances, the memberships or the notifications.
C29_DeleteByNonOwnerNoEffect ==
  [][\A i \in Slots :
       (/\ calls'[i].op = "deleteProject" /\ calls'[i] # calls[i]
        /\ calls'[i].pid \in InstIds(db)
        /\ db.inst[calls'[i].pid].owner # calls'[i].uid) =>
         /\ db'.mem = db.mem
         /\ db'.notif = db.notif
         /\ db'.inst = db.inst]_vars

\* C30 (every transaction is closed): a request that has no step left to
\* take has been answered, and when no request has a step left to take no
\* transaction is open on the connection.
C30_EveryTransactionClosed ==
  LET Over(c) == c.pc \in {"done", "thrown"}
  IN \A i \in Slots :
       Over(calls[i]) =>
         /\ calls[i].res # "none"
         /\ (\A j \in Slots : calls[j].op = "idle" \/ Over(calls[j])) => ~inTxn

====
